---- MODULE Spec2Model ----
(***************************************************************************)
(* The file sanitization pipeline of the metadata shield tool:             *)
(*   MetadataProcessor.processBatch / processImage / processVideo          *)
(*     (src/services/metadataProcessor.ts)                                 *)
(*   GeminiService.analyzeFile / simulateAnalysis / generateFakeMetadata   *)
(*     (src/unnamed/part_001, the services/gemini module)                  *)
(*   App, FileUploader, ProcessControls, MetadataDisplay                   *)
(*     (src/unnamed/part_001, src/unnamed/part_002)                        *)
(* Under Spec, TimedSpec and PairSpec one behaviour is one call of         *)
(* processBatch(files, options); under FilterSpec, UploadSpec and ViewSpec  *)
(* one behaviour is one session of the App.  JavaScript runs everything as *)
(* a single cooperative                                                    *)
(* flow: every action below is one callback (or one continuation after an  *)
(* await) run to completion.                                               *)
(***************************************************************************)
EXTENDS Integers, Sequences, FiniteSets, TLC

VARIABLES
    files,          \* processBatch's argument `files`
    options,        \* processBatch's argument `options`
    results,        \* processBatch's local `results`
    idx,            \* position of the for-of loop in `files` (1-based)
    pc,             \* where the single flow is suspended
    canvas,         \* MetadataProcessor.canvas / MetadataProcessor.ctx (static)
    img,            \* the Image decoded by the current processImage call
    fileMetadata,   \* the local `fileMetadata` of the current pipeline
    silent,         \* the endpoint will never answer the request in flight
    calls,          \* history: per input, the path taken and the AI requests made
    faults,         \* history: per input, what went wrong in its pipeline
    lastCall,       \* history: the last Risk Analysis Client call of the pipeline
                    \* in flight or just finished, and its result
    now,            \* the clock: what Date.now() and new Date() read
    rng,            \* the state of the generator behind Math.random()
    sent,           \* history: per input, the requests handed to generateContent
    app,            \* the state of App: files, processedFiles, isProcessing,
                    \* selectedFile
    uploader,       \* the state of FileUploader: rejectedFiles
    display,        \* the MetadataDisplay instance on screen: its prop `file`,
                    \* aiAnalysis, loadingAnalysis
    inflight        \* the promises the App and the view wait for: processBatch
                    \* calls and analyzeFile calls

\* the state of the presentation layer
uiVars == <<app, uploader, display, inflight>>

vars == <<files, options, results, idx, pc, canvas, img, fileMetadata,
          silent, calls, faults, lastCall, now, rng, sent, uiVars>>

----------------------------------------------------------------------------
(* Bounds of the model                                                     *)

\* longest batch, under Spec
MaxFiles == 2

\* the clock reading when processBatch is called, and how many times the
\* clock may advance during the batch under TimedSpec
StartTime == 5000
MaxTicks == 2

\* the span 31536000000 (the milliseconds of 365 days) of processImage's
\* changeDates step.  TLC's integers have 32 bits: the span is scaled to 365
\* clock units, and the clock readings are small accordingly.
YearSpan == 365

----------------------------------------------------------------------------
(* JavaScript values                                                       *)

\* `undefined` where the code expects a string
Undefined == "<undefined>"

\* an array-valued property: absent (undefined) or an array
ArrUndefined == [def |-> FALSE, items |-> <<>>]
Arr(s) == [def |-> TRUE, items |-> s]

\* an object-valued property (technicalData): absent or a key -> value map
ObjUndefined == [def |-> FALSE, map |-> <<>>]
Obj(m) == [def |-> TRUE, map |-> m]

\* truthiness of a string-valued expression: undefined and "" are falsy
Falsy(s) == s \in {Undefined, ""}

\* a || b
Or(a, b) == IF Falsy(a) THEN b ELSE a

\* String.prototype.startsWith
StartsWith(s, prefix) ==
    /\ Len(s) >= Len(prefix)
    /\ SubSeq(s, 1, Len(prefix)) = prefix

\* { ...a, ...b } on objects (key -> value maps): b's keys win
Spread(a, b) ==
    [k \in (DOMAIN a) \cup (DOMAIN b) |-> IF k \in DOMAIN b THEN b[k] ELSE a[k]]

\* the object {} with no property
EmptyObject == <<>>

\* whether object o carries a property k
Has(o, k) == k \in DOMAIN o

\* Math.round(a / b) for integers a >= 0 and b > 0
RoundDiv(a, b) == (2 * a + b) \div (2 * b)

\* n in decimal, padded with zeros on the left to w digits
Pad(n, w) ==
    LET digits == ToString(n)
    IN  IF Len(digits) >= w THEN digits
        ELSE SubSeq("000", 1, w - Len(digits)) \o digits

\* new Date(t).toISOString(), for a time value t within the first hour of
\* the epoch (every time of the model is)
toISOString(t) ==
    "1970-01-01T00:" \o Pad(t \div 60000, 2) \o ":"
        \o Pad((t % 60000) \div 1000, 2) \o "." \o Pad(t % 1000, 3) \o "Z"

\* Math.random() is a deterministic generator whose state is seeded outside
\* the program: a call returns a number of [0, 1) and moves the state on.  The
\* numbers are given as fractions and the model's generator walks round
\* RandomSamples.  The first two samples are different numbers that agree in
\* their first five base-36 digits; the last sample is one of the numbers
\* above 1 - 1/span that Math.random() can return (1 - 2^-53 is one for the
\* span 31536000000).
RandomSamples ==
    <<[num |-> 1, den |-> 7], [num |-> 7142857, den |-> 49999998],
      [num |-> 0, den |-> 1], [num |-> 1, den |-> 2], [num |-> 999, den |-> 1000]>>
RandomStates == 1..Len(RandomSamples)
randomValue(g) == RandomSamples[g]
randomNext(g) == (g % Len(RandomSamples)) + 1

\* a * b = q * d + m with 0 <= m < d, for 0 <= a < d, computed by doubling so
\* that no intermediate value exceeds 2 * d
RECURSIVE mulDivMod(_, _, _)
mulDivMod(a, b, d) ==
    IF b = 0
    THEN [q |-> 0, m |-> 0]
    ELSE LET h == mulDivMod(a, b \div 2, d)
             q2 == 2 * h.q + ((2 * h.m) \div d)
             m2 == (2 * h.m) % d
         IN  IF b % 2 = 0
             THEN [q |-> q2, m |-> m2]
             ELSE [q |-> q2 + ((m2 + a) \div d), m |-> (m2 + a) % d]

\* the time value of new Date(t - r * span): the Date constructor cuts the
\* fraction of its argument off (TimeClip)
dateOfOffset(t, r, span) ==
    LET p == mulDivMod(r.num, span, r.den)
    IN  t - p.q - (IF p.m > 0 THEN 1 ELSE 0)

\* the digits of Number.prototype.toString(radix)
DigitChars == "0123456789abcdefghijklmnopqrstuvwxyz"

\* how many digits toString(radix) prints for a fraction that does not end
\* earlier (a double holds 52 bits after the point)
SignificantDigits(radix) == IF radix = 36 THEN 11 ELSE 17

\* the first n digits of num / den after the point in the given radix, by
\* long division; the digits end where the fraction ends
RECURSIVE fractionDigits(_, _, _, _)
fractionDigits(num, den, radix, n) ==
    IF n = 0 \/ num = 0
    THEN ""
    ELSE LET d == (num * radix) \div den
         IN  SubSeq(DigitChars, d + 1, d + 1)
               \o fractionDigits((num * radix) % den, den, radix, n - 1)

\* r.toString(radix) for r of [0, 1); `${r}` is r.toString(10)
numberToString(r, radix) ==
    IF r.num = 0
    THEN "0"
    ELSE "0." \o fractionDigits(r.num, r.den, radix, SignificantDigits(radix))

\* String.prototype.substr(start, length)
substr(s, start, length) ==
    SubSeq(s, start + 1, IF Len(s) < start + length THEN Len(s) ELSE start + length)

\* the outcome of a block of code: a returned value or a thrown Error
Return(v) == [thrown |-> FALSE, value |-> v, message |-> Undefined]
Throw(msg) == [thrown |-> TRUE, value |-> Undefined, message |-> msg]

----------------------------------------------------------------------------
(* JSON.parse, on the response texts the endpoints are given to answer     *)

\* a parsed JSON value: null, or an object with its properties
JSNull == [null |-> TRUE, props |-> EmptyObject]
JSObject(p) == [null |-> FALSE, props |-> p]

\* o.k for a string-valued property k (undefined when o has no such property)
GetStr(o, k) == IF k \in DOMAIN o THEN o[k] ELSE Undefined
\* o.k for an array-valued property k
GetArr(o, k) == IF k \in DOMAIN o THEN o[k] ELSE ArrUndefined
\* o.k for an object-valued property k
GetObj(o, k) == IF k \in DOMAIN o THEN o[k] ELSE ObjUndefined

TextGarbage == "<html>Service Unavailable</html>"
TextNull == "null"
TextEmptyObject == "{}"
AnalysisTextValid ==
    "{\"sensitiveData\":[\"GPS tag\"],\"recommendations\":[\"strip location\"],\"riskLevel\":\"high\",\"confidence\":0.9,\"deviceInfo\":\"Pixel 8\",\"locationInfo\":\"Paris\"}"
AnalysisTextBadRisk == "{\"riskLevel\":\"extreme\"}"
DecoyTextFull ==
    "{\"device\":\"Canon EOS\",\"location\":\"Oslo\",\"creationDate\":\"2021-03-04T10:00:00.000Z\",\"technicalData\":{\"software\":\"GIMP\",\"engine\":\"none\"}}"

JSONParse(text) ==
    CASE text = TextNull -> Return(JSNull)
      [] text = TextEmptyObject -> Return(JSObject(EmptyObject))
      [] text = AnalysisTextValid ->
            Return(JSObject([sensitiveData |-> Arr(<<"GPS tag">>),
                             recommendations |-> Arr(<<"strip location">>),
                             riskLevel |-> "high",
                             confidence |-> "0.9",
                             deviceInfo |-> "Pixel 8",
                             locationInfo |-> "Paris"]))
      [] text = AnalysisTextBadRisk ->
            Return(JSObject([riskLevel |-> "extreme"]))
      [] text = DecoyTextFull ->
            Return(JSObject([device |-> "Canon EOS",
                             location |-> "Oslo",
                             creationDate |-> "2021-03-04T10:00:00.000Z",
                             technicalData |-> Obj([software |-> "GIMP",
                                                    engine |-> "none"])]))
      [] OTHER -> Throw("Unexpected token in JSON")

----------------------------------------------------------------------------
(* The generative endpoint, as the client sees it                          *)

\* ai.models.generateContent rejects (transport failure, quota, bad key)
Rejected == [kind |-> "reject", text |-> Undefined]
\* ai.models.generateContent resolves with a response whose .text is t
Answer(t) == [kind |-> "text", text |-> t]

AnalyzeTexts ==
    {Undefined, "", TextGarbage, TextNull, AnalysisTextBadRisk, AnalysisTextValid}
DecoyTexts ==
    {Undefined, "", TextGarbage, TextNull, TextEmptyObject, DecoyTextFull}

AnalyzeOutcomes == {Rejected} \cup {Answer(t) : t \in AnalyzeTexts}
DecoyOutcomes == {Rejected} \cup {Answer(t) : t \in DecoyTexts}

----------------------------------------------------------------------------
(* Risk Analysis Client: GeminiService                                     *)

RiskLevels == {"low", "medium", "high"}

\* simulateAnalysis(file): the fallback report (its texts are stood for by
\* ASCII labels; suggestedFakeMetadata.creationDate, a clock reading, is left out)
simulateAnalysis(file) ==
    LET isImage == StartsWith(file.type, "image/")
    IN  JSObject([sensitiveData |->
                      Arr(<<"filename fingerprint holds digits that may tell the date",
                            IF isImage THEN "possible EXIF data"
                                       ELSE "technical container data">>),
                  recommendations |->
                      Arr(<<"remove the metadata at once",
                            "rename the file at random",
                            "use geographic camouflage">>),
                  riskLevel |-> "medium",
                  confidence |-> "0.7",
                  suggestedFakeMetadata |->
                      Obj([device |-> "iPhone 14 Pro",
                           location |-> "Stockholm, Sweden"])])

\* mutant of analyzeRequest: the prompt carries the file's content as well
analyzeRequestWithContent(file) ==
    [model |-> "gemini-3-flash-preview",
     contents |->
         "analyze a file of kind "
             \o (IF StartsWith(file.type, "image/") THEN "image" ELSE "video")
             \o "; name: " \o file.name
             \o "; type: " \o file.type
             \o "; size: " \o ToString(RoundDiv(file.size, 1024 * 1024)) \o " MB"
             \o "; last modified: " \o toISOString(file.lastModified)
             \o "; content: " \o file.bytes,
     responseSchema |-> "GeminiAnalysis"]

\* the argument analyzeFile hands to ai.models.generateContent (the Arabic
\* text of the prompt is stood for by ASCII labels; the interpolated values
\* are computed as the template computes them)
analyzeRequest(file) ==
    [model |-> "gemini-3-flash-preview",
     contents |->
         "analyze a file of kind "
             \o (IF StartsWith(file.type, "image/") THEN "image" ELSE "video")
             \o "; name: " \o file.name
             \o "; type: " \o file.type
             \o "; size: " \o ToString(RoundDiv(file.size, 1024 * 1024)) \o " MB"
             \o "; last modified: " \o toISOString(file.lastModified),
     responseSchema |-> "GeminiAnalysis"]

\* the try block of analyzeFile, given what the endpoint does
analyzeFileTry(file, outcome) ==
    IF outcome.kind = "reject" THEN Throw("generateContent failed")
    ELSE IF Falsy(outcome.text) THEN Throw("No AI response text")
    ELSE JSONParse(outcome.text)

\* mutant of analyzeFile: no catch, the try block's error escapes
analyzeFileNoCatch(file, outcome) == analyzeFileTry(file, outcome)

\* analyzeFile(file): the try block, and the catch that falls back
analyzeFile(file, outcome) ==
    LET r == analyzeFileTry(file, outcome)
    IN  IF r.thrown THEN Return(simulateAnalysis(file)) ELSE r

\* the argument generateFakeMetadata hands to ai.models.generateContent
decoyRequest ==
    [model |-> "gemini-3-flash-preview",
     contents |->
         "Generate realistic but completely synthetic digital hardware and environment metadata to mask original identity.",
     responseSchema |-> "decoy"]

\* the static decoy of generateFakeMetadata's catch
StaticDecoy ==
    [device |-> "Shielded Forensic Hardware",
     location |-> "Protected Network",
     generatedFakeData |-> TRUE]

\* the try block of generateFakeMetadata, given what the endpoint does
generateFakeMetadataTry(outcome) ==
    IF outcome.kind = "reject" THEN Throw("generateContent failed")
    ELSE IF Falsy(outcome.text) THEN Return(EmptyObject)
    ELSE LET parsed == JSONParse(outcome.text)
         IN  IF parsed.thrown THEN parsed
             ELSE IF parsed.value.null
                  THEN Throw("Cannot read properties of null (reading 'device')")
             ELSE Return([device |-> GetStr(parsed.value.props, "device"),
                          location |-> GetStr(parsed.value.props, "location"),
                          creationDate |->
                              GetStr(parsed.value.props, "creationDate"),
                          technicalData |->
                              GetObj(parsed.value.props, "technicalData"),
                          generatedFakeData |-> TRUE])

\* mutant of generateFakeMetadata: no catch, the try block's error escapes
generateFakeMetadataNoCatch(outcome) == generateFakeMetadataTry(outcome)

\* generateFakeMetadata(): the try block, and the catch with the static decoy
generateFakeMetadata(outcome) ==
    LET r == generateFakeMetadataTry(outcome)
    IN  IF r.thrown THEN Return(StaticDecoy) ELSE r

----------------------------------------------------------------------------
(* The inputs of a batch                                                   *)

\* Files the caller can hand over.  `raster` is what decoding the bytes
\* gives for an image; `bytes` stands for the file's content.
Photo == [name |-> "photo.png", type |-> "image/png", size |-> 2000000,
          lastModified |-> 1000, bytes |-> "png-bytes",
          raster |-> [width |-> 4, height |-> 3]]
Clip == [name |-> "clip.mp4", type |-> "video/mp4", size |-> 9000000,
         lastModified |-> 2000, bytes |-> "mp4-bytes",
         raster |-> [width |-> 0, height |-> 0]]
Paper == [name |-> "paper.pdf", type |-> "application/pdf", size |-> 50000,
          lastModified |-> 3000, bytes |-> "pdf-bytes",
          raster |-> [width |-> 0, height |-> 0]]
Blank == [name |-> "notes", type |-> "", size |-> 10,
          lastModified |-> 4000, bytes |-> "raw-bytes",
          raster |-> [width |-> 0, height |-> 0]]

FileSet == {Photo, Clip, Paper, Blank}

\* files that agree with Photo and Clip in name, type, size and lastModified
\* and differ from them in content
PhotoTwin == [Photo EXCEPT !.bytes = "other-png-bytes",
                           !.raster = [width |-> 6, height |-> 2]]
ClipTwin == [Clip EXCEPT !.bytes = "other-mp4-bytes"]

PairFileSet == {Photo, PhotoTwin, Clip, ClipTwin, Paper}

\* every sequence over S of length at most n
SeqUpTo(S, n) == UNION {[1..k -> S] : k \in 0..n}

\* ProcessOptions
OptionSet ==
    [safeMode : BOOLEAN, removeGPS : BOOLEAN, changeDates : BOOLEAN,
     generateFakeData : BOOLEAN, preserveQuality : BOOLEAN]

\* what canvas.toBlob hands to its callback: null, or a blob of some size
NoBlob == [null |-> TRUE, size |-> 0]
Blob(n) == [null |-> FALSE, size |-> n]
BlobSet == {NoBlob, Blob(1500000)}

----------------------------------------------------------------------------
(* Sanitization Engine: MetadataProcessor                                  *)

NoCanvas == [created |-> FALSE, ctx |-> FALSE, width |-> 0, height |-> 0, drawn |-> 0]
NoImage == [width |-> 0, height |-> 0]
NoMetadata == EmptyObject

\* mutant of drawImage: the canvas keeps what the file before left on it
drawImageSkipped(c, image, i) == c

\* img.onload: canvas.width = img.width; canvas.height = img.height;
\* ctx.clearRect(...); ctx.drawImage(img, 0, 0), for the image of input i
drawImage(c, image, i) ==
    [c EXCEPT !.width = image.width, !.height = image.height, !.drawn = i]

\* initializeCanvas(): creates the canvas once; getContext('2d') may give null
initializeCanvas(c, ctxOk) ==
    IF ~c.created
    THEN [created |-> TRUE, ctx |-> ctxOk, width |-> 0, height |-> 0, drawn |-> 0]
    ELSE c

\* mutant of Category: whatever is no image is taken for a video
CategoryNoElse(file) ==
    IF StartsWith(file.type, "image/") THEN "image" ELSE "video"

\* the branch processBatch takes for a file
Category(file) ==
    IF StartsWith(file.type, "image/") THEN "image"
    ELSE IF StartsWith(file.type, "video/") THEN "video"
    ELSE "unsupported"

\* processImage: the fileMetadata literal built from the file and the report,
\* at clock reading t (format, which no step below reads, is not carried)
imageMetadata(file, aiReport, t) ==
    [filename |-> file.name,
     type |-> file.type,
     originalSize |-> file.size,
     creationDate |-> toISOString(file.lastModified),
     modificationDate |-> toISOString(t),
     lastModified |-> file.lastModified,
     sensitiveData |-> GetArr(aiReport, "sensitiveData"),
     recommendations |-> GetArr(aiReport, "recommendations"),
     riskLevel |-> GetStr(aiReport, "riskLevel"),
     device |-> Or(GetStr(aiReport, "deviceInfo"), "Original Trace Detected"),
     location |-> Or(GetStr(aiReport, "locationInfo"), "Potential Geotag"),
     fileType |-> "image"]

\* mutant of applySafeMode: the risk level of the report is kept
applySafeModeKeepRisk(m, opts) ==
    IF opts.safeMode
    THEN Spread(m, [safeModeApplied |-> TRUE,
                    sensitiveData |-> Arr(<<>>),
                    device |-> "Sanitized Device"])
    ELSE m

\* mutant of applySafeMode: the findings of the report are kept
applySafeModeKeepFindings(m, opts) ==
    IF opts.safeMode
    THEN Spread(m, [safeModeApplied |-> TRUE,
                    riskLevel |-> "low",
                    device |-> "Sanitized Device"])
    ELSE m

\* processImage: if (options.safeMode) { ... }
applySafeMode(m, opts) ==
    IF opts.safeMode
    THEN Spread(m, [safeModeApplied |-> TRUE,
                    sensitiveData |-> Arr(<<>>),
                    riskLevel |-> "low",
                    device |-> "Sanitized Device"])
    ELSE m

\* mutant of applyRemoveGPS: the overlay is left out
applyRemoveGPSSkipped(m, opts) == m

\* processImage: if (options.removeGPS) { ... }
applyRemoveGPS(m, opts) ==
    IF opts.removeGPS
    THEN Spread(m, [hasGPS |-> FALSE, location |-> "Stripped"])
    ELSE m

\* mutant of applyFakeImage: the decoy's location is not taken over
applyFakeImageKeepLocation(m, fake) ==
    Spread(m, [device |-> Or(GetStr(fake, "device"), m.device),
               creationDate |-> Or(GetStr(fake, "creationDate"), m.creationDate),
               generatedFakeData |-> TRUE,
               technicalData |-> GetObj(fake, "technicalData")])

\* processImage: the overlay of the decoy after `await generateFakeMetadata()`
applyFakeImage(m, fake) ==
    Spread(m, [device |-> Or(GetStr(fake, "device"), m.device),
               location |-> Or(GetStr(fake, "location"), m.location),
               creationDate |-> Or(GetStr(fake, "creationDate"), m.creationDate),
               generatedFakeData |-> TRUE,
               technicalData |-> GetObj(fake, "technicalData")])

\* mutant of applyChangeDates: the random date reaches back two spans
applyChangeDatesTwoSpans(m, opts, t, r) ==
    IF opts.changeDates
    THEN Spread(m, [creationDate |->
                        toISOString(dateOfOffset(t, r, 2 * YearSpan)),
                    modificationDate |-> toISOString(t)])
    ELSE m

\* processImage: if (options.changeDates) { ... }, at clock reading t and
\* with r what Math.random() returns (Date.now() and new Date() of the block
\* run in one synchronous stretch and read the same time)
applyChangeDates(m, opts, t, r) ==
    IF opts.changeDates
    THEN Spread(m, [creationDate |-> toISOString(dateOfOffset(t, r, YearSpan)),
                    modificationDate |-> toISOString(t)])
    ELSE m

\* mutant of finishImageMetadata: the decoy's technicalData is spread last
finishImageMetadataDecoyLast(m, blob, image) ==
    Spread(m, [processedSize |-> blob.size,
               technicalData |->
                   Obj(Spread([engine |-> "ShieldEngine v4 (Canvas Redraw)",
                               binaryStripped |-> TRUE,
                               fingerprintObfuscated |-> TRUE,
                               resolution |-> ToString(image.width) \o "x"
                                              \o ToString(image.height)],
                              GetObj(m, "technicalData").map))])

\* processImage: what the toBlob callback adds to fileMetadata
finishImageMetadata(m, blob, image) ==
    Spread(m, [processedSize |-> blob.size,
               technicalData |->
                   Obj(Spread(GetObj(m, "technicalData").map,
                              [engine |-> "ShieldEngine v4 (Canvas Redraw)",
                               binaryStripped |-> TRUE,
                               fingerprintObfuscated |-> TRUE,
                               resolution |-> ToString(image.width) \o "x"
                                              \o ToString(image.height)]))])

\* processImage: new File([blob], `shielded_${file.name}`, { type,
\* lastModified }), at clock reading t
imageOutputFile(file, blob, opts, t) ==
    [name |-> "shielded_" \o file.name, type |-> file.type, size |-> blob.size,
     lastModified |-> IF opts.changeDates THEN t ELSE file.lastModified,
     bytes |-> "canvas-encoding"]

\* processVideo: the fileMetadata literal built from the file and the report,
\* at clock reading t (format is not carried)
videoMetadata(file, aiReport, t) ==
    [filename |-> file.name,
     type |-> file.type,
     originalSize |-> file.size,
     processedSize |-> file.size,
     creationDate |-> toISOString(file.lastModified),
     modificationDate |-> toISOString(t),
     lastModified |-> file.lastModified,
     sensitiveData |-> GetArr(aiReport, "sensitiveData"),
     recommendations |->
         Arr((IF GetArr(aiReport, "recommendations").def
              THEN GetArr(aiReport, "recommendations").items ELSE <<>>)
             \o <<"Scrubbing video container headers...">>),
     riskLevel |-> GetStr(aiReport, "riskLevel"),
     device |-> Or(GetStr(aiReport, "deviceInfo"), "Video Footprint Detected"),
     location |-> "Likely Embedded",
     fileType |-> "video"]

\* mutant of applyFakeVideo: the decoy is laid over as the image path does
applyFakeVideoAsImage(m, fake) ==
    Spread(m, [device |-> Or(GetStr(fake, "device"), "Decoy Device"),
               location |-> Or(GetStr(fake, "location"), "Synthetic Location"),
               creationDate |-> Or(GetStr(fake, "creationDate"), m.creationDate),
               generatedFakeData |-> TRUE])

\* processVideo: the overlay of the decoy after `await generateFakeMetadata()`
applyFakeVideo(m, fake) ==
    Spread(m, [device |-> Or(GetStr(fake, "device"), "Decoy Device"),
               location |-> Or(GetStr(fake, "location"), "Synthetic Location"),
               generatedFakeData |-> TRUE])

\* processVideo: fileMetadata.technicalData = { ... }
finishVideoMetadata(m) ==
    Spread(m, [technicalData |->
                   Obj([method |-> "Header-Level Redaction",
                        engine |-> "ShieldEngine Video v1",
                        containerSafe |-> TRUE])])

\* mutant of videoOutputFile: the copy always keeps the input's lastModified
videoOutputFileKeepTime(file, opts, t) ==
    [name |-> "shielded_" \o file.name, type |-> file.type, size |-> file.size,
     lastModified |-> file.lastModified,
     bytes |-> file.bytes]

\* processVideo: new File([file], `shielded_${file.name}`, { type,
\* lastModified }), at clock reading t
videoOutputFile(file, opts, t) ==
    [name |-> "shielded_" \o file.name, type |-> file.type, size |-> file.size,
     lastModified |-> IF opts.changeDates THEN t ELSE file.lastModified,
     bytes |-> file.bytes]

\* processImage: `img_${Date.now()}_${Math.random().toString(36).substr(2, 5)}`
\* at clock reading t, Math.random() returning r
imageId(t, r) == "img_" \o ToString(t) \o "_" \o substr(numberToString(r, 36), 2, 5)

\* processVideo: `vid_${Date.now()}`
videoId(t) == "vid_" \o ToString(t)

\* processBatch: `err_${Date.now()}_${Math.random()}`
errorId(t, r) == "err_" \o ToString(t) \o "_" \o numberToString(r, 10)

\* the ProcessedFile that processImage resolves with / processVideo returns
completedResult(id, file, output, m) ==
    [id |-> id, originalFile |-> file, processedFile |-> output, metadata |-> m,
     status |-> "completed"]

\* mutant of failedResult: the failed entry keeps the input as its output file
failedResultWithOutput(id, file, message) ==
    [id |-> id, originalFile |-> file, processedFile |-> file, status |-> "failed",
     error |-> message,
     metadata |-> [filename |-> file.name, type |-> file.type,
                   originalSize |-> file.size]]

\* processBatch: the ProcessedFile pushed by the catch block
failedResult(id, file, message) ==
    [id |-> id, originalFile |-> file, status |-> "failed", error |-> message,
     metadata |-> [filename |-> file.name, type |-> file.type,
                   originalSize |-> file.size]]

\* mutant of pushCompleted: the result goes to the front of the list
pushCompletedFirst(rs, r) == <<r>> \o rs

\* processBatch: results.push(await this.processX(file, options))
pushCompleted(rs, r) == Append(rs, r)

\* mutant of processBatchCatch: the catch reports a generic message
processBatchCatchGeneric(rs, id, file, message) ==
    Append(rs, [id |-> id, originalFile |-> file, status |-> "failed",
                error |-> "Processing failed",
                metadata |-> [filename |-> file.name, type |-> file.type,
                              originalSize |-> file.size]])

\* processBatch: catch (e) { results.push({ ... status: 'failed' ... }) }
processBatchCatch(rs, id, file, message) ==
    Append(rs, failedResult(id, file, message))

----------------------------------------------------------------------------
(* Initial state: processBatch(files, options) has just been called        *)

NoCall == [fn |-> "none"]

\* the presentation layer after its first render: useState's initial values
\* (null is NoResult for selectedFile, NoAnalysis for aiAnalysis); the detail
\* view is rendered only while a file is selected
NoResult == [null |-> TRUE]
NoAnalysis == [null |-> TRUE]
AppMounted ==
    [files |-> <<>>, processedFiles |-> <<>>, isProcessing |-> FALSE,
     selectedFile |-> NoResult]
UploaderMounted == [rejectedFiles |-> <<>>, rawFiles |-> <<>>]
NoDisplay == [mounted |-> FALSE]
NothingInFlight == [batches |-> <<>>, analyses |-> <<>>, started |-> 0]

UiInit ==
    /\ app = AppMounted
    /\ uploader = UploaderMounted
    /\ display = NoDisplay
    /\ inflight = NothingInFlight

\* processBatch is called with one of `batches`, the generator of
\* Math.random() being in one of the states `seeds`
InitWith(batches, seeds) ==
    /\ files \in batches
    /\ rng \in seeds
    /\ options \in OptionSet
    /\ results = <<>>
    /\ idx = 1
    /\ pc = "loop"
    /\ canvas = NoCanvas
    /\ img = NoImage
    /\ fileMetadata = NoMetadata
    /\ silent = FALSE
    /\ calls = [i \in 1..Len(files) |-> [path |-> "none", analyze |-> 0, decoy |-> 0]]
    /\ faults = [i \in 1..Len(files) |-> "none"]
    /\ lastCall = NoCall
    /\ now = StartTime
    /\ sent = [i \in 1..Len(files) |-> <<>>]
    /\ UiInit

Init == InitWith(SeqUpTo(FileSet, MaxFiles), {1})

\* a batch of one file, with every state of the generator
TimedInit == InitWith({<<f>> : f \in FileSet}, RandomStates)

\* batches of two files, among them files that differ in content alone
PairInit == InitWith([1..2 -> PairFileSet], {1})

\* the file of the current loop iteration
file == files[idx]

\* where the flow waits for an answer of the Risk Analysis endpoint
AIWait == {"img_analyze", "img_fake", "vid_analyze", "vid_fake"}

----------------------------------------------------------------------------
(* processBatch                                                            *)

\* the awaited pipeline rejected (or threw): the catch block pushes a failed
\* result (its id takes a Math.random()) and the loop goes on with the next
\* file
CatchAndContinue(message, fault) ==
    /\ results' = processBatchCatch(results, errorId(now, randomValue(rng)), file,
                                     message)
    /\ rng' = randomNext(rng)
    /\ faults' = [faults EXCEPT ![idx] = fault]
    /\ idx' = idx + 1
    /\ pc' = "loop"
    /\ img' = NoImage
    /\ fileMetadata' = NoMetadata

\* the awaited pipeline resolved with r: it is pushed and the loop goes on
PushAndContinue(r) ==
    /\ results' = pushCompleted(results, r)
    /\ idx' = idx + 1
    /\ pc' = "loop"
    /\ img' = NoImage
    /\ fileMetadata' = NoMetadata
    /\ UNCHANGED faults

\* mutant of Orphaned: the loop does not wait for the pipeline and goes on
\* with the next file
OrphanedLoopGoesOn(fault) ==
    /\ pc' = "loop"
    /\ idx' = idx + 1
    /\ faults' = [faults EXCEPT ![idx] = fault]
    /\ UNCHANGED <<results, img, fileMetadata, rng>>

\* an exception inside the async img.onload callback: it rejects that
\* callback's own promise, which nobody holds; the promise processImage
\* returned is neither resolved nor rejected, and processBatch awaits it
Orphaned(fault) ==
    /\ pc' = "orphaned"
    /\ faults' = [faults EXCEPT ![idx] = fault]
    /\ UNCHANGED <<results, idx, img, fileMetadata, rng>>

\* loop iteration on an image: processImage runs up to reader.readAsDataURL
ProcessBatchImage ==
    /\ pc = "loop"
    /\ idx <= Len(files)
    /\ Category(file) = "image"
    /\ \E ctxOk \in BOOLEAN : canvas' = initializeCanvas(canvas, ctxOk)
    /\ pc' = "img_read"
    /\ calls' = [calls EXCEPT ![idx].path = "image"]
    /\ lastCall' = NoCall
    /\ UNCHANGED <<uiVars, files, options, now, rng, results, idx, img, fileMetadata, silent,
                   faults, sent>>

\* loop iteration on a video: processVideo runs up to `await analyzeFile`
ProcessBatchVideo ==
    /\ pc = "loop"
    /\ idx <= Len(files)
    /\ Category(file) = "video"
    /\ pc' = "vid_analyze"
    /\ calls' = [calls EXCEPT ![idx].path = "video",
                              ![idx].analyze = @ + 1]
    /\ sent' = [sent EXCEPT ![idx] = Append(@, analyzeRequest(file))]
    /\ lastCall' = NoCall
    /\ UNCHANGED <<uiVars, files, options, now, rng, results, idx, canvas, img, fileMetadata,
                   silent, faults>>

\* loop iteration on any other file: throw new Error('Unsupported format')
ProcessBatchUnsupported ==
    /\ pc = "loop"
    /\ idx <= Len(files)
    /\ Category(file) = "unsupported"
    /\ CatchAndContinue("Unsupported format", "unsupported")
    /\ lastCall' = NoCall
    /\ UNCHANGED <<uiVars, files, options, now, canvas, silent, calls, sent>>

\* the loop is over: return results
ProcessBatchReturn ==
    /\ pc = "loop"
    /\ idx > Len(files)
    /\ pc' = "returned"
    /\ UNCHANGED <<uiVars, files, options, now, rng, results, idx, canvas, img, fileMetadata,
                   silent, calls, faults, lastCall, sent>>

----------------------------------------------------------------------------
(* processImage                                                            *)

\* reader.onload: creates the Image and sets img.src
ReaderOnLoad ==
    /\ pc = "img_read"
    /\ pc' = "img_decode"
    /\ UNCHANGED <<uiVars, files, options, now, rng, results, idx, canvas, img, fileMetadata,
                   silent, calls, faults, lastCall, sent>>

\* reader.onerror: reject(new Error('File reading error'))
ReaderOnError ==
    /\ pc = "img_read"
    /\ CatchAndContinue("File reading error", "read")
    /\ UNCHANGED <<uiVars, files, options, now, canvas, silent, calls, lastCall, sent>>

\* img.onerror: reject(new Error('Media decode failure'))
ImgOnError ==
    /\ pc = "img_decode"
    /\ CatchAndContinue("Media decode failure", "decode")
    /\ UNCHANGED <<uiVars, files, options, now, canvas, silent, calls, lastCall, sent>>

\* img.onload, up to `await gemini.analyzeFile(file)`
ImgOnLoad ==
    /\ pc = "img_decode"
    /\ IF ~canvas.created \/ ~canvas.ctx
       THEN /\ CatchAndContinue("Canvas engine unavailable", "canvas")
            /\ UNCHANGED <<canvas, calls, sent>>
       ELSE /\ canvas' = drawImage(canvas, file.raster, idx)
            /\ img' = file.raster
            /\ calls' = [calls EXCEPT ![idx].analyze = @ + 1]
            /\ sent' = [sent EXCEPT ![idx] = Append(@, analyzeRequest(file))]
            /\ pc' = "img_analyze"
            /\ UNCHANGED <<results, idx, fileMetadata, faults, rng>>
    /\ UNCHANGED <<uiVars, files, options, now, silent, lastCall>>

\* img.onload resumes with the report and runs up to
\* `await generateFakeMetadata()` or, without generateFakeData, through the
\* changeDates step up to canvas.toBlob
ImageAnalyzeSettled ==
    /\ pc = "img_analyze"
    /\ ~silent
    /\ \E outcome \in AnalyzeOutcomes :
         LET r == analyzeFile(file, outcome)
             m == IF r.thrown \/ r.value.null THEN NoMetadata
                  ELSE applyRemoveGPS(
                           applySafeMode(imageMetadata(file, r.value.props, now),
                                         options),
                           options)
         IN  /\ lastCall' = [fn |-> "analyzeFile", outcome |-> outcome, result |-> r]
             /\ IF r.thrown
                THEN /\ Orphaned("thrown")
                     /\ UNCHANGED <<calls, sent>>
                ELSE IF r.value.null
                THEN /\ Orphaned("thrown")
                     /\ UNCHANGED <<calls, sent>>
                ELSE /\ IF options.generateFakeData
                        THEN /\ fileMetadata' = m
                             /\ pc' = "img_fake"
                             /\ calls' = [calls EXCEPT ![idx].decoy = @ + 1]
                             /\ sent' = [sent EXCEPT ![idx] = Append(@, decoyRequest)]
                             /\ UNCHANGED rng
                        ELSE /\ fileMetadata' =
                                  applyChangeDates(m, options, now, randomValue(rng))
                             /\ rng' = IF options.changeDates THEN randomNext(rng)
                                       ELSE rng
                             /\ pc' = "img_encode"
                             /\ UNCHANGED <<calls, sent>>
                     /\ UNCHANGED <<results, idx, img, faults>>
    /\ UNCHANGED <<uiVars, files, options, now, canvas, silent>>

\* img.onload resumes with the decoy and runs through the changeDates step
\* up to canvas.toBlob
ImageFakeSettled ==
    /\ pc = "img_fake"
    /\ ~silent
    /\ \E outcome \in DecoyOutcomes :
         LET r == generateFakeMetadata(outcome)
         IN  /\ lastCall' = [fn |-> "generateFakeMetadata", outcome |-> outcome,
                             result |-> r]
             /\ IF r.thrown
                THEN Orphaned("thrown")
                ELSE /\ fileMetadata' =
                          applyChangeDates(applyFakeImage(fileMetadata, r.value),
                                           options, now, randomValue(rng))
                     /\ rng' = IF options.changeDates THEN randomNext(rng)
                               ELSE rng
                     /\ pc' = "img_encode"
                     /\ UNCHANGED <<results, idx, img, faults>>
    /\ UNCHANGED <<uiVars, files, options, now, canvas, silent, calls, sent>>

\* the toBlob callback: rejects on a null blob, else resolves the result
\* (whose id takes a Math.random())
ToBlobCallback ==
    /\ pc = "img_encode"
    /\ \E blob \in BlobSet :
         IF blob.null
         THEN CatchAndContinue("Fingerprint stripping failed", "encode")
         ELSE /\ PushAndContinue(
                     completedResult(imageId(now, randomValue(rng)), file,
                                     imageOutputFile(file, blob, options, now),
                                     finishImageMetadata(fileMetadata, blob, img)))
              /\ rng' = randomNext(rng)
    /\ lastCall' = NoCall
    /\ UNCHANGED <<uiVars, files, options, now, canvas, silent, calls, sent>>

----------------------------------------------------------------------------
(* processVideo                                                            *)

\* processVideo resumes with the report, up to `await generateFakeMetadata()`
\* or, without generateFakeData, up to the processing delay
VideoAnalyzeSettled ==
    /\ pc = "vid_analyze"
    /\ ~silent
    /\ \E outcome \in AnalyzeOutcomes :
         LET r == analyzeFile(file, outcome)
         IN  /\ lastCall' = [fn |-> "analyzeFile", outcome |-> outcome, result |-> r]
             /\ IF r.thrown
                THEN /\ CatchAndContinue(r.message, "thrown")
                     /\ UNCHANGED <<calls, sent>>
                ELSE IF r.value.null
                THEN /\ CatchAndContinue(
                            "Cannot read properties of null (reading 'sensitiveData')",
                            "thrown")
                     /\ UNCHANGED <<calls, sent>>
                ELSE /\ fileMetadata' = videoMetadata(file, r.value.props, now)
                     /\ UNCHANGED rng
                     /\ IF options.generateFakeData
                        THEN /\ pc' = "vid_fake"
                             /\ calls' = [calls EXCEPT ![idx].decoy = @ + 1]
                             /\ sent' = [sent EXCEPT ![idx] = Append(@, decoyRequest)]
                        ELSE /\ pc' = "vid_delay"
                             /\ UNCHANGED <<calls, sent>>
                     /\ UNCHANGED <<results, idx, img, faults>>
    /\ UNCHANGED <<uiVars, files, options, now, canvas, silent>>

\* processVideo resumes with the decoy, up to the processing delay
VideoFakeSettled ==
    /\ pc = "vid_fake"
    /\ ~silent
    /\ \E outcome \in DecoyOutcomes :
         LET r == generateFakeMetadata(outcome)
         IN  /\ lastCall' = [fn |-> "generateFakeMetadata", outcome |-> outcome,
                             result |-> r]
             /\ IF r.thrown
                THEN CatchAndContinue(r.message, "thrown")
                ELSE /\ fileMetadata' = applyFakeVideo(fileMetadata, r.value)
                     /\ UNCHANGED rng
                     /\ pc' = "vid_delay"
                     /\ UNCHANGED <<results, idx, img, faults>>
    /\ UNCHANGED <<uiVars, files, options, now, canvas, silent, calls, sent>>

\* the processing delay of processVideo, in ms
VideoDelay == 2000

\* the timer of the processing delay fires, not before the delay has passed
\* on the clock: processVideo builds the copy and returns
VideoDelayElapsed ==
    /\ pc = "vid_delay"
    /\ now' = now + VideoDelay
    /\ PushAndContinue(
           completedResult(videoId(now'), file, videoOutputFile(file, options, now'),
                           finishVideoMetadata(fileMetadata)))
    /\ lastCall' = NoCall
    /\ UNCHANGED <<uiVars, files, options, rng, canvas, silent, calls, sent>>

----------------------------------------------------------------------------
(* The endpoint and the clock                                              *)

\* the request in flight is never answered (analyzeFile and
\* generateFakeMetadata set no timeout)
EndpointSilent ==
    /\ pc \in AIWait
    /\ ~silent
    /\ silent' = TRUE
    /\ UNCHANGED <<uiVars, files, options, now, rng, results, idx, pc, canvas, img, fileMetadata,
                   calls, faults, lastCall, sent>>

\* time passes between two callbacks of the batch
ClockTick ==
    /\ pc # "returned"
    /\ now < StartTime + MaxTicks
    /\ now' = now + 1
    /\ UNCHANGED <<uiVars, files, options, rng, results, idx, pc, canvas, img, fileMetadata,
                   silent, calls, faults, lastCall, sent>>

----------------------------------------------------------------------------

Next ==
    \/ ProcessBatchImage
    \/ ProcessBatchVideo
    \/ ProcessBatchUnsupported
    \/ ProcessBatchReturn
    \/ ReaderOnLoad
    \/ ReaderOnError
    \/ ImgOnLoad
    \/ ImgOnError
    \/ ImageAnalyzeSettled
    \/ ImageFakeSettled
    \/ ToBlobCallback
    \/ VideoAnalyzeSettled
    \/ VideoFakeSettled
    \/ VideoDelayElapsed
    \/ EndpointSilent

\* one batch whose callbacks follow each other within one reading of the
\* clock, the processing delay of a video apart
Spec == Init /\ [][Next]_vars

\* every callback that is due is eventually run by the event loop
FairSpec == Spec /\ WF_vars(Next)

\* one batch while the clock advances
TimedNext == Next \/ ClockTick

TimedSpec == TimedInit /\ [][TimedNext]_vars

\* one batch of two files that may differ in content alone
PairSpec == PairInit /\ [][Next]_vars

----------------------------------------------------------------------------
(* The presentation layer's use of a result (App)                          *)

\* the result list shows the download button of a result
downloadOffered(r) == r.status = "completed"

\* downloadFile(r) starts a download
downloadFileActs(r) == Has(r, "processedFile")

\* downloadAll() downloads the result
downloadAllTakes(r) == Has(r, "processedFile") /\ r.status = "completed"

----------------------------------------------------------------------------
(* Claims                                                                  *)

Supported(f) == StartsWith(f.type, "image/") \/ StartsWith(f.type, "video/")

\* C1: when processBatch returns, the list has as many results as there were
\* inputs and result i is the result of input i, whichever inputs failed.
C1_OneResultPerInputInOrder ==
    pc = "returned" =>
        /\ Len(results) = Len(files)
        /\ \A i \in 1..Len(files) : results[i].originalFile = files[i]

\* a batch of two different files has returned, the first failed and the
\* second completed
C1_Witness ==
    /\ pc = "returned"
    /\ Len(files) = 2
    /\ files[1] # files[2]
    /\ results[1].status = "failed"
    /\ results[2].status = "completed"

\* the message of the Error each kind of failure raises
FaultMessage(fault) ==
    CASE fault = "unsupported" -> "Unsupported format"
      [] fault = "read" -> "File reading error"
      [] fault = "decode" -> "Media decode failure"
      [] fault = "encode" -> "Fingerprint stripping failed"

ListedFaults == {"unsupported", "read", "decode", "encode"}

\* C2: an input that fails (unsupported type, read, decode or encode error)
\* gets a 'failed' result carrying that error's message, and the loop has gone
\* past it: while it stands at the next input, taking that input up is enabled.
C2_FailureIsolated ==
    \A i \in 1..Len(files) :
        faults[i] \in ListedFaults =>
            /\ Len(results) >= i
            /\ results[i].status = "failed"
            /\ results[i].error = FaultMessage(faults[i])
            /\ idx > i
            /\ (i < Len(files) /\ idx = i + 1 /\ pc = "loop") =>
                  ENABLED (ProcessBatchImage \/ ProcessBatchVideo
                           \/ ProcessBatchUnsupported)

\* the first of two inputs failed to decode and the second one has completed
C2_Witness ==
    /\ Len(files) = 2
    /\ faults[1] = "decode"
    /\ Len(results) = 2
    /\ results[2].status = "completed"

\* C3: every element of the results list is 'completed' or 'failed'; a
\* completed one has an output file and no error; a failed one has an error
\* message and no output file, and no download is offered or made for it.
C3_TerminalStatusAndShape ==
    \A i \in 1..Len(results) :
        LET r == results[i]
        IN  /\ r.status \in {"completed", "failed"}
            /\ r.status = "completed" =>
                  /\ Has(r, "processedFile")
                  /\ ~Has(r, "error")
            /\ r.status = "failed" =>
                  /\ Has(r, "error")
                  /\ ~Falsy(r.error)
                  /\ ~Has(r, "processedFile")
                  /\ ~downloadOffered(r)
                  /\ ~downloadFileActs(r)
                  /\ ~downloadAllTakes(r)

\* a returned batch holds a completed and a failed result
C3_Witness ==
    /\ pc = "returned"
    /\ \E i, j \in 1..Len(results) :
          /\ results[i].status = "completed"
          /\ results[j].status = "failed"

\* C4: an input whose type starts with neither 'image/' nor 'video/' gets a
\* 'failed' result with error 'Unsupported format', and neither pipeline nor
\* the Risk Analysis Client is invoked for it.
C4_UnsupportedFormat ==
    \A i \in 1..Len(files) :
        ~Supported(files[i]) =>
            /\ calls[i] = [path |-> "none", analyze |-> 0, decoy |-> 0]
            /\ i < idx =>
                  /\ results[i].status = "failed"
                  /\ results[i].error = "Unsupported format"

\* an unsupported file has been through the loop after a supported one
C4_Witness ==
    /\ Len(files) = 2
    /\ Supported(files[1])
    /\ ~Supported(files[2])
    /\ Len(results) = 2

\* C5: processBatch always comes to return its list, provided every external
\* operation answers: unless an endpoint went silent, the flow has returned
\* or some callback is still due.
C5_BatchTerminates ==
    ~silent => (pc = "returned" \/ ENABLED Next)

\* the request was answered with an outcome of the endpoint's failure kinds
\* the claim names: a failed call, or a response without text
CallFailedOrEmpty(outcome) ==
    outcome.kind = "reject" \/ (outcome.kind = "text" /\ Falsy(outcome.text))

\* C6: analyzeFile never raises, and when the endpoint call fails or answers
\* with empty text it returns the fallback report: riskLevel 'medium',
\* confidence 0.7, exactly two findings.
C6_AnalyzeFallback ==
    lastCall.fn = "analyzeFile" =>
        /\ ~lastCall.result.thrown
        /\ CallFailedOrEmpty(lastCall.outcome) =>
              LET report == lastCall.result.value
              IN  /\ ~report.null
                  /\ GetStr(report.props, "riskLevel") = "medium"
                  /\ GetStr(report.props, "confidence") = "0.7"
                  /\ GetArr(report.props, "sensitiveData").def
                  /\ Len(GetArr(report.props, "sensitiveData").items) = 2

\* analyzeFile has just returned for a rejected endpoint call
C6_Witness ==
    /\ lastCall.fn = "analyzeFile"
    /\ lastCall.outcome = Rejected
    /\ pc \in {"img_encode", "img_fake", "vid_delay", "vid_fake"}

\* a report with the required fields of GeminiAnalysis
Usable(report) ==
    /\ ~report.null
    /\ GetArr(report.props, "sensitiveData").def
    /\ GetArr(report.props, "recommendations").def
    /\ GetStr(report.props, "riskLevel") \in RiskLevels
    /\ GetStr(report.props, "confidence") # Undefined

\* C7: every value analyzeFile returns is a usable report (sensitiveData,
\* recommendations, riskLevel among low/medium/high, confidence); a response
\* that parses but does not fit the schema is replaced by the fallback.
C7_AnalysisUsable ==
    lastCall.fn = "analyzeFile" =>
        /\ ~lastCall.result.thrown
        /\ Usable(lastCall.result.value)

\* the decoy request failed: transport error, empty or unparsable response
DecoyRequestFailed(outcome) ==
    \/ outcome.kind = "reject"
    \/ outcome.kind = "text" /\ Falsy(outcome.text)
    \/ outcome.kind = "text" /\ ~Falsy(outcome.text) /\ JSONParse(outcome.text).thrown

IsStaticDecoy(decoy) ==
    /\ GetStr(decoy, "device") = "Shielded Forensic Hardware"
    /\ GetStr(decoy, "location") = "Protected Network"

\* C8 as claimed: generateFakeMetadata never raises, and whenever the request
\* fails (transport error, unparsable or empty response) it returns the
\* static decoy.
C8_DecoyFallbackAsClaimed ==
    lastCall.fn = "generateFakeMetadata" =>
        /\ ~lastCall.result.thrown
        /\ DecoyRequestFailed(lastCall.outcome) =>
              IsStaticDecoy(lastCall.result.value)

\* C8 as amended: generateFakeMetadata never raises; on a transport error and
\* on a non-empty response text that is not valid JSON or is JSON null it
\* returns the static decoy; on an empty response text it returns an empty
\* object, with no device and no location.
C8_DecoyFallback ==
    lastCall.fn = "generateFakeMetadata" =>
        LET outcome == lastCall.outcome
            decoy == lastCall.result.value
        IN  /\ ~lastCall.result.thrown
            /\ outcome.kind = "reject" => IsStaticDecoy(decoy)
            /\ (outcome.kind = "text" /\ ~Falsy(outcome.text)
                /\ (JSONParse(outcome.text).thrown
                    \/ JSONParse(outcome.text).value.null)) =>
                  IsStaticDecoy(decoy)
            /\ (outcome.kind = "text" /\ Falsy(outcome.text)) =>
                  /\ decoy = EmptyObject
                  /\ GetStr(decoy, "device") = Undefined
                  /\ GetStr(decoy, "location") = Undefined

\* generateFakeMetadata has just returned for an unparsable response text
C8_Witness ==
    /\ lastCall.fn = "generateFakeMetadata"
    /\ lastCall.outcome = Answer(TextGarbage)
    /\ pc \in {"img_encode", "vid_delay"}

\* C9: a supported file whose read, decode and encode succeed completes
\* whatever the endpoints do, and its pipeline never stalls on them.
C9_AIFailureAbsorbed ==
    /\ \A i \in 1..Len(results) :
          (Supported(files[i]) /\ faults[i] \notin {"read", "decode", "canvas", "encode"})
              => results[i].status = "completed"
    /\ pc \in AIWait \cup {"orphaned"} => ENABLED Next

\* C10: an image that completes with safeMode and removeGPS set and
\* generateFakeData clear has safeModeApplied = true, hasGPS = false,
\* location 'Stripped' and riskLevel 'low', whatever the report held.
C10_SafeModeRemoveGPS ==
    \A i \in 1..Len(results) :
        LET r == results[i]
        IN  (/\ r.status = "completed"
             /\ StartsWith(r.originalFile.type, "image/")
             /\ options.safeMode
             /\ options.removeGPS
             /\ ~options.generateFakeData) =>
                /\ Has(r.metadata, "safeModeApplied")
                /\ r.metadata.safeModeApplied = TRUE
                /\ Has(r.metadata, "hasGPS")
                /\ r.metadata.hasGPS = FALSE
                /\ r.metadata.location = "Stripped"
                /\ r.metadata.riskLevel = "low"

\* such an image has completed on a report that said riskLevel 'high' and
\* named a location (its recommendations are still in the result)
C10_Witness ==
    /\ options.safeMode
    /\ options.removeGPS
    /\ ~options.generateFakeData
    /\ \E i \in 1..Len(results) :
          /\ results[i].status = "completed"
          /\ StartsWith(results[i].originalFile.type, "image/")
          /\ results[i].metadata.recommendations = Arr(<<"strip location">>)

----------------------------------------------------------------------------
(* Claims about the report and the output of one pipeline.  They are stated *)
(* on the step that pushes the result: before it, lastCall holds the last   *)
(* call the pipeline made of the Risk Analysis Client.                      *)

\* the step pushes a completed result
Completes ==
    /\ Len(results') = Len(results) + 1
    /\ results'[Len(results')].status = "completed"

\* the result the step pushes
NewResult == results'[Len(results')]

ImageCompletes == pc = "img_encode" /\ Completes
VideoCompletes == pc = "vid_delay" /\ Completes

\* the decoy generateFakeMetadata returned to the pipeline (with
\* generateFakeData set, that call is the pipeline's last)
DecoyGot == lastCall.result.value

AllThreeSet ==
    options.safeMode /\ options.removeGPS /\ options.generateFakeData

\* C11 as claimed: an image that completes with safeMode, removeGPS and
\* generateFakeData set has the location of the decoy generateFakeMetadata
\* returned, never 'Stripped', whatever that decoy is.
C11_DecoyLocationAsClaimed ==
    [][(ImageCompletes /\ AllThreeSet) =>
           /\ NewResult.metadata.location = GetStr(DecoyGot, "location")
           /\ NewResult.metadata.location # "Stripped"]_vars

\* C11 as amended: an image that completes with safeMode, removeGPS and
\* generateFakeData set has the decoy's location when the decoy has a
\* non-empty one, and keeps 'Stripped' when the decoy has none.
C11_DecoyLocation ==
    [][(ImageCompletes /\ AllThreeSet) =>
           LET location == GetStr(DecoyGot, "location")
           IN  NewResult.metadata.location =
                   IF Falsy(location) THEN "Stripped" ELSE location]_vars

\* an image has completed with the three options set and the location of
\* the decoy the endpoint answered
C11_Witness ==
    /\ AllThreeSet
    /\ Len(results) = 1
    /\ results[1].status = "completed"
    /\ results[1].metadata.fileType = "image"
    /\ results[1].metadata.hasGPS = FALSE
    /\ results[1].metadata.location = "Oslo"

\* C12: an image that completes with safeMode set has no findings and
\* riskLevel 'low', whatever the report and the other options are; its device
\* is 'Sanitized Device' unless generateFakeData brought a decoy with a
\* device, which is then the report's device.
C12_SafeModeImage ==
    [][(ImageCompletes /\ options.safeMode) =>
           /\ NewResult.metadata.sensitiveData = Arr(<<>>)
           /\ NewResult.metadata.riskLevel = "low"
           /\ NewResult.metadata.device =
                  IF options.generateFakeData /\ ~Falsy(GetStr(DecoyGot, "device"))
                  THEN GetStr(DecoyGot, "device")
                  ELSE "Sanitized Device"]_vars

\* an image has completed with safeMode set on a report that named findings,
\* riskLevel 'high' and a device, and the decoy (if any) had no device
C12_Witness ==
    /\ options.safeMode
    /\ Len(results) = 1
    /\ results[1].status = "completed"
    /\ results[1].metadata.fileType = "image"
    /\ results[1].metadata.recommendations = Arr(<<"strip location">>)
    /\ results[1].metadata.device = "Sanitized Device"

\* the step by which processImage leaves the overlays behind: the report's
\* dates are final from here on
DatesSettled == pc \in {"img_analyze", "img_fake"} /\ pc' = "img_encode"

\* the times of (now - YearSpan, now], and those of [now - YearSpan, now]
PastYearOpen == (now - YearSpan + 1)..now
PastYearClosed == (now - YearSpan)..now

\* what the claim says of the dates when changeDates is clear and
\* generateFakeData is set: the decoy's creationDate if it has one, else the
\* file's lastModified
DecoyDateRule ==
    (DatesSettled /\ ~options.changeDates /\ options.generateFakeData) =>
        LET decoyDate == GetStr(lastCall'.result.value, "creationDate")
        IN  fileMetadata'.creationDate =
                IF Falsy(decoyDate) THEN toISOString(file.lastModified)
                ELSE decoyDate

\* the completed result carries the dates as the overlays left them
DatesCarried ==
    ImageCompletes =>
        /\ NewResult.metadata.creationDate = fileMetadata.creationDate
        /\ NewResult.metadata.modificationDate = fileMetadata.modificationDate

\* C13 as claimed: with changeDates set an image's creationDate is a time t
\* with now - 365 days < t <= now and its modificationDate is the current
\* time, even if the decoy gave a creationDate; with changeDates clear and
\* generateFakeData set, creationDate is the decoy's if it has one, else the
\* file's lastModified.
C13_ChangeDatesAsClaimed ==
    [][/\ (DatesSettled /\ options.changeDates) =>
              /\ \E t \in PastYearOpen :
                    fileMetadata'.creationDate = toISOString(t)
              /\ fileMetadata'.modificationDate = toISOString(now)
       /\ DecoyDateRule
       /\ DatesCarried]_vars

\* C13 as amended: the same with now - 365 days <= t <= now (the fraction of
\* the random time is cut off, so the oldest time is reached).
C13_ChangeDates ==
    [][/\ (DatesSettled /\ options.changeDates) =>
              /\ \E t \in PastYearClosed :
                    fileMetadata'.creationDate = toISOString(t)
              /\ fileMetadata'.modificationDate = toISOString(now)
       /\ DecoyDateRule
       /\ DatesCarried]_vars

\* an image has completed with changeDates and generateFakeData set on a
\* decoy that gave a creationDate (and technicalData), after the clock had
\* advanced, with a creationDate of the year before
C13_Witness ==
    /\ options.changeDates
    /\ options.generateFakeData
    /\ Len(results) = 1
    /\ results[1].status = "completed"
    /\ results[1].metadata.fileType = "image"
    /\ Has(results[1].metadata.technicalData.map, "software")
    /\ results[1].metadata.modificationDate = toISOString(StartTime + MaxTicks)
    /\ \E t \in (StartTime - YearSpan)..(StartTime + MaxTicks) :
          results[1].metadata.creationDate = toISOString(t)

\* the keys processImage writes into technicalData
EngineKeys == {"engine", "binaryStripped", "fingerprintObfuscated", "resolution"}

\* C14: a completed image result has processedSize equal to the byte length
\* of the encoded output, and technicalData with the engine's name,
\* binaryStripped = true, fingerprintObfuscated = true and resolution
\* '<width>x<height>', whatever technicalData the decoy brought; every other
\* key of the decoy's technicalData is kept.
C14_ImageTechnicalData ==
    [][ImageCompletes =>
           LET r == NewResult
               td == r.metadata.technicalData
               decoyData == IF options.generateFakeData
                            THEN GetObj(DecoyGot, "technicalData")
                            ELSE ObjUndefined
           IN  /\ r.metadata.processedSize = r.processedFile.size
               /\ td.def
               /\ EngineKeys \subseteq DOMAIN td.map
               /\ td.map.engine = "ShieldEngine v4 (Canvas Redraw)"
               /\ td.map.binaryStripped = TRUE
               /\ td.map.fingerprintObfuscated = TRUE
               /\ td.map.resolution =
                      ToString(r.originalFile.raster.width) \o "x"
                          \o ToString(r.originalFile.raster.height)
               /\ \A k \in (DOMAIN decoyData.map) \ EngineKeys :
                      /\ k \in DOMAIN td.map
                      /\ td.map[k] = decoyData.map[k]]_vars

\* an image has completed on a decoy whose technicalData named a software
\* and an engine of its own
C14_Witness ==
    /\ Len(results) = 1
    /\ results[1].status = "completed"
    /\ results[1].metadata.fileType = "image"
    /\ Has(results[1].metadata.technicalData.map, "software")
    /\ results[1].metadata.technicalData.map.software = "GIMP"
    /\ results[1].metadata.technicalData.map.resolution = "4x3"

\* C15: a completed result's output file, image or video, is named
\* 'shielded_' followed by the original name, has the original mime type,
\* and has as lastModified the current time if changeDates is set, the
\* original's lastModified otherwise.
C15_OutputFile ==
    [][Completes =>
           LET r == NewResult
           IN  /\ r.processedFile.name = "shielded_" \o r.originalFile.name
               /\ r.processedFile.type = r.originalFile.type
               /\ r.processedFile.lastModified =
                      IF options.changeDates THEN now'
                      ELSE r.originalFile.lastModified]_vars

\* a video has completed with changeDates set after the clock had advanced
C15_Witness ==
    /\ options.changeDates
    /\ Len(results) = 1
    /\ results[1].status = "completed"
    /\ results[1].metadata.fileType = "video"
    /\ results[1].processedFile.name = "shielded_clip.mp4"
    /\ results[1].processedFile.lastModified = StartTime + MaxTicks + VideoDelay

\* the note processVideo appends to the recommendations
ScrubbingNote == "Scrubbing video container headers..."

\* the recommendations of a report, empty if it has none
ReportRecommendations(report) ==
    IF GetArr(report, "recommendations").def
    THEN GetArr(report, "recommendations").items
    ELSE <<>>

\* C16: every video input completes, with processedSize equal to
\* originalSize, an output whose bytes are the input's, and recommendations
\* that are the report's (none if it has none) followed by the one
\* header-scrubbing note: no step of processVideo ends the pipeline without a
\* completed result.
C16_VideoCompletes ==
    [][/\ (pc = "vid_analyze" /\ pc' # pc) =>
              /\ idx' = idx
              /\ fileMetadata'.recommendations =
                     Arr(ReportRecommendations(lastCall'.result.value.props)
                         \o <<ScrubbingNote>>)
       /\ (pc = "vid_fake" /\ pc' # pc) =>
              /\ idx' = idx
              /\ fileMetadata'.recommendations = fileMetadata.recommendations
       /\ (pc = "vid_delay" /\ pc' # pc) =>
              /\ Completes
              /\ NewResult.metadata.processedSize = NewResult.metadata.originalSize
              /\ NewResult.metadata.processedSize = NewResult.originalFile.size
              /\ NewResult.processedFile.bytes = NewResult.originalFile.bytes
              /\ NewResult.processedFile.size = NewResult.originalFile.size
              /\ NewResult.metadata.recommendations =
                     fileMetadata.recommendations]_vars

\* the descriptor processVideo writes as technicalData
VideoDescriptor ==
    Obj([method |-> "Header-Level Redaction",
         engine |-> "ShieldEngine Video v1",
         containerSafe |-> TRUE])

\* what C17 says of a video apart from device and location
VideoDecoyRest ==
    /\ (VideoCompletes /\ options.generateFakeData) =>
           /\ Has(NewResult.metadata, "generatedFakeData")
           /\ NewResult.metadata.generatedFakeData = TRUE
           /\ NewResult.metadata.creationDate =
                  toISOString(NewResult.originalFile.lastModified)
           /\ NewResult.metadata.technicalData = VideoDescriptor
    /\ (VideoCompletes /\ ~options.generateFakeData) =>
           /\ calls[idx].decoy = 0
           /\ \A n \in 1..Len(sent[idx]) : sent[idx][n] # decoyRequest

\* C17 as claimed: a video that completes with generateFakeData set has the
\* decoy's device and location and generatedFakeData = true, its creationDate
\* is still the file's lastModified and its technicalData the fixed video
\* descriptor; with generateFakeData clear no decoy request is made.
C17_VideoDecoyAsClaimed ==
    [][/\ (VideoCompletes /\ options.generateFakeData) =>
              /\ NewResult.metadata.device = GetStr(DecoyGot, "device")
              /\ NewResult.metadata.location = GetStr(DecoyGot, "location")
       /\ VideoDecoyRest]_vars

\* C17 as amended: the device is the decoy's when the decoy has a non-empty
\* one and 'Decoy Device' otherwise, the location the decoy's when it has a
\* non-empty one and 'Synthetic Location' otherwise; the rest as claimed.
C17_VideoDecoy ==
    [][/\ (VideoCompletes /\ options.generateFakeData) =>
              /\ NewResult.metadata.device =
                     Or(GetStr(DecoyGot, "device"), "Decoy Device")
              /\ NewResult.metadata.location =
                     Or(GetStr(DecoyGot, "location"), "Synthetic Location")
       /\ VideoDecoyRest]_vars

\* a video has completed with generateFakeData set on the decoy the endpoint
\* answered, which gave a creationDate and technicalData too
C17_Witness ==
    /\ options.generateFakeData
    /\ Len(results) = 1
    /\ results[1].status = "completed"
    /\ results[1].metadata.fileType = "video"
    /\ results[1].metadata.device = "Canon EOS"
    /\ results[1].metadata.location = "Oslo"
    /\ calls[1].decoy = 1

\* C18: the options act on a video as on an image: a video that completes
\* with safeMode set has safeModeApplied = true, riskLevel 'low' and no
\* findings; one that completes with removeGPS set and generateFakeData clear
\* has hasGPS = false and location 'Stripped'.
C18_OptionsOnVideo ==
    \A i \in 1..Len(results) :
        LET r == results[i]
        IN  (r.status = "completed" /\ StartsWith(r.originalFile.type, "video/")) =>
                /\ options.safeMode =>
                      /\ Has(r.metadata, "safeModeApplied")
                      /\ r.metadata.safeModeApplied = TRUE
                      /\ r.metadata.riskLevel = "low"
                      /\ r.metadata.sensitiveData = Arr(<<>>)
                /\ (options.removeGPS /\ ~options.generateFakeData) =>
                      /\ Has(r.metadata, "hasGPS")
                      /\ r.metadata.hasGPS = FALSE
                      /\ r.metadata.location = "Stripped"

----------------------------------------------------------------------------
(* Claims about the batch and about the requests                           *)

\* C19: each input of a batch gets one pass of the engine and one terminal
\* result, 'completed' or 'failed', that is not taken up again: the inputs
\* before the loop's position have their result each, in their order, and a
\* batch that has stopped (the endpoint having answered every request it was
\* sent) has a terminal result for every input; in its pass an input has at
\* most one analyze request and at most one decoy request, and a decoy
\* request only if generateFakeData is set.
C19_OnePassOneTerminalState ==
    /\ Len(results) = idx - 1
    /\ \A i \in 1..Len(results) :
          /\ results[i].originalFile = files[i]
          /\ results[i].status \in {"completed", "failed"}
    /\ \A i \in 1..Len(files) :
          /\ calls[i].analyze <= 1
          /\ calls[i].decoy <= 1
          /\ calls[i].decoy > 0 => options.generateFakeData
          /\ i > idx => calls[i] = [path |-> "none", analyze |-> 0, decoy |-> 0]
    /\ (~silent /\ ~ENABLED Next) => Len(results) = Len(files)

\* name, mime type, size and lastModified of two files are the same
SameAttributes(f, g) ==
    /\ f.name = g.name
    /\ f.type = g.type
    /\ f.size = g.size
    /\ f.lastModified = g.lastModified

\* the requests sent for input i that ask for an analysis / for a decoy
AnalyzeRequestsOf(i) ==
    {sent[i][n] : n \in {k \in 1..Len(sent[i]) :
                            sent[i][k].responseSchema = "GeminiAnalysis"}}
DecoyRequestsOf(i) ==
    {sent[i][n] : n \in {k \in 1..Len(sent[i]) :
                            sent[i][k].responseSchema = "decoy"}}

\* C20: the request analyzeFile sends is the same for two files that agree
\* in name, mime type, size and lastModified, whatever their content; the
\* request generateFakeMetadata sends is the same for any two files.
C20_RequestsIgnoreContent ==
    \A i, j \in 1..Len(files) :
        /\ SameAttributes(files[i], files[j]) =>
              \A a \in AnalyzeRequestsOf(i), b \in AnalyzeRequestsOf(j) : a = b
        /\ \A a \in DecoyRequestsOf(i), b \in DecoyRequestsOf(j) : a = b

\* two images that differ in content alone have each had their analysis and
\* their decoy requested
C20_Witness ==
    /\ files = <<Photo, PhotoTwin>>
    /\ Photo.bytes # PhotoTwin.bytes
    /\ AnalyzeRequestsOf(1) # {}
    /\ AnalyzeRequestsOf(2) # {}
    /\ DecoyRequestsOf(1) # {}
    /\ DecoyRequestsOf(2) # {}

----------------------------------------------------------------------------
(* Result ids                                                              *)

\* C23: the ids of the results of one processBatch call are pairwise
\* distinct, whatever the mix of image, video and failed results, so that
\* removing a result by its id removes exactly one entry.
C23_IdsPairwiseDistinct ==
    \A i, j \in 1..Len(results) : i # j => results[i].id # results[j].id

----------------------------------------------------------------------------
(* Scheduling within one batch                                             *)

\* a step of input i's pipeline has been taken
Started(i) == calls[i].path # "none" \/ faults[i] # "none" \/ sent[i] # <<>>

\* input i has reached its terminal state: its result is in the list
Terminal(i) == i <= Len(results)

\* the inputs whose pipeline has started and has not reached a terminal state
InFlight == {i \in 1..Len(files) : Started(i) /\ ~Terminal(i)}

\* C24: within one processBatch call the files are processed strictly one
\* at a time: no step of a file (read, decode, AI request, encode, delay) is
\* taken before every file ahead of it has reached its terminal state, so
\* at most one file is in flight at any moment.
C24_OneFileAtATime ==
    /\ \A i \in 1..Len(files) : Started(i) => \A j \in 1..(i - 1) : Terminal(j)
    /\ Cardinality(InFlight) <= 1
    /\ pc \notin {"loop", "returned"} => InFlight = {idx}

\* the second file's pipeline waits for the endpoint, the first file's
\* result being in the list
C24_Witness ==
    /\ Len(files) = 2
    /\ idx = 2
    /\ pc \in AIWait
    /\ Len(results) = 1
    /\ InFlight = {2}

\* from the draw on the canvas to the encode's read of it
DrawToEncode == {"img_analyze", "img_fake", "img_encode"}

\* C25: each image is encoded from its own raster: from the moment a file's
\* image is drawn on the shared canvas to the moment that file's encode
\* reads the canvas, across the awaited analyze and generateDecoy calls, the
\* canvas holds that file's image at that image's size: no other file has
\* resized, cleared or drawn on it.
C25_EncodedFromOwnRaster ==
    pc \in DrawToEncode =>
        /\ canvas.drawn = idx
        /\ canvas.width = file.raster.width
        /\ canvas.height = file.raster.height
        /\ InFlight = {idx}

\* the second image of a batch is about to be encoded, the canvas having
\* held the first image before
C25_Witness ==
    /\ Len(results) = 1
    /\ results[1].status = "completed"
    /\ results[1].metadata.fileType = "image"
    /\ idx = 2
    /\ pc = "img_encode"
    /\ canvas.drawn = 2

\* the report m has the property k and its value is v
Holds(m, k, v) == Has(m, k) /\ m[k] = v

\* C26: the steps of the image pipeline come in the order read, decode,
\* draw, analyze, generateDecoy (only if requested), encode, however long
\* the AI calls take: analyze is requested only after the decode succeeded
\* and the image was drawn, generateDecoy only after analyze returned, the
\* encode only after every requested overlay was applied; a file whose read
\* or decode fails causes no AI request.
C26_ImageStepOrder ==
    /\ pc \in {"img_read", "img_decode"} =>
           /\ sent[idx] = <<>>
           /\ canvas.drawn # idx
           /\ fileMetadata = NoMetadata
    /\ pc = "img_analyze" =>
           /\ canvas.drawn = idx
           /\ sent[idx] = <<analyzeRequest(file)>>
           /\ fileMetadata = NoMetadata
    /\ pc = "img_fake" =>
           /\ options.generateFakeData
           /\ sent[idx] = <<analyzeRequest(file), decoyRequest>>
           /\ lastCall.fn = "analyzeFile"
           /\ ~lastCall.result.thrown
    /\ pc = "img_encode" =>
           /\ sent[idx] = IF options.generateFakeData
                          THEN <<analyzeRequest(file), decoyRequest>>
                          ELSE <<analyzeRequest(file)>>
           /\ lastCall.fn = IF options.generateFakeData
                            THEN "generateFakeMetadata" ELSE "analyzeFile"
           /\ ~lastCall.result.thrown
           /\ options.safeMode => Holds(fileMetadata, "safeModeApplied", TRUE)
           /\ options.removeGPS => Holds(fileMetadata, "hasGPS", FALSE)
           /\ options.generateFakeData =>
                  Holds(fileMetadata, "generatedFakeData", TRUE)
           /\ options.changeDates =>
                  /\ \E t \in (StartTime - YearSpan)..now :
                         fileMetadata.creationDate = toISOString(t)
                  /\ \E t \in StartTime..now :
                         fileMetadata.modificationDate = toISOString(t)
    /\ \A i \in 1..Len(files) :
           faults[i] \in {"read", "decode"} => sent[i] = <<>>

\* an image is about to be encoded after both AI calls, each of which took
\* a tick of the clock or more
C26_Witness ==
    /\ pc = "img_encode"
    /\ options.generateFakeData
    /\ Len(sent[1]) = 2
    /\ now = StartTime + MaxTicks

\* a read failed: no request was sent for the file
C26_WitnessReadFails ==
    /\ Len(results) = 1
    /\ faults[1] = "read"
    /\ sent[1] = <<>>

\* C27: if an AI endpoint never answers a request, the file's pipeline still
\* reaches a terminal state and processBatch still returns: while the flow
\* waits for an answer that will not come, some callback (a timeout) is due
\* that takes it on.
C27_NoWaitWithoutBound ==
    (silent /\ pc \in AIWait) => ENABLED Next

----------------------------------------------------------------------------
(* The presentation layer: FileUploader, App, ProcessControls and          *)
(* MetadataDisplay.  processBatch is seen from outside here: a call that   *)
(* is awaited and, if it returns, returns one result per file.             *)

\* the variables of the pipeline
engineVars == <<files, options, results, idx, pc, canvas, img, fileMetadata,
                silent, calls, faults, lastCall, now, rng, sent>>

\* FileUploader's property maxFiles: App leaves it at its default (20 in the
\* source, scaled)
maxFiles == 2

\* FileUploader's property maxSize: 100 * 1024 * 1024
maxSize == 104857600

\* the longest list App.files, the longest list rejectedFiles, the most
\* processBatch calls and the most pending analyzeFile calls of a session
MaxListed == maxFiles + 1
MaxRejected == maxFiles
MaxBatches == 2
MaxPending == 2

\* files a user can select besides Paper: an image of exactly maxSize bytes,
\* a video one byte larger, and a file that is neither supported nor small
\* enough
Poster == [name |-> "poster.png", type |-> "image/png", size |-> maxSize,
           lastModified |-> 6000, bytes |-> "poster-bytes",
           raster |-> [width |-> 8, height |-> 8]]
Film == [name |-> "film.mov", type |-> "video/quicktime", size |-> maxSize + 1,
         lastModified |-> 7000, bytes |-> "film-bytes",
         raster |-> [width |-> 0, height |-> 0]]
Dump == [name |-> "dump.zip", type |-> "application/zip", size |-> maxSize + 1,
         lastModified |-> 8000, bytes |-> "zip-bytes",
         raster |-> [width |-> 0, height |-> 0]]

SelectableFiles == {Poster, Paper, Film, Dump}

\* the FileLists of a select or drop event
Selections == SeqUpTo(SelectableFiles, maxFiles + 1)

\* the texts of the keys FileUploader passes to t()
translations ==
    [unsupportedFormat |-> "Unsupported format",
     fileTooLarge |-> "File is too large",
     exceededMaxFilesDesc |-> "Maximum number of files exceeded"]

\* useTranslation: t(key) gives the text of the key, or the key itself if the
\* table has no text for it
translate(key) ==
    IF key \in DOMAIN translations /\ translations[key] # ""
    THEN translations[key]
    ELSE key

\* handleFiles: isSupported
isSupported(f) == StartsWith(f.type, "image/") \/ StartsWith(f.type, "video/")

\* mutant of isSizeOk: a file of exactly maxSize bytes counts as too large
isSizeOkBelow(f) == f.size < maxSize

\* handleFiles: isSizeOk
isSizeOk(f) == f.size <= maxSize

\* handleFiles: rawFiles.forEach(...) over the first n files, giving the
\* locals `accepted` and `rejected`
RECURSIVE filterFiles(_, _)
filterFiles(rawFiles, n) ==
    IF n = 0
    THEN [accepted |-> <<>>, rejected |-> <<>>]
    ELSE LET before == filterFiles(rawFiles, n - 1)
             f == rawFiles[n]
         IN  IF isSupported(f) /\ isSizeOk(f)
             THEN IF Len(before.accepted) < maxFiles
                  THEN [before EXCEPT !.accepted = Append(@, f)]
                  ELSE [before EXCEPT !.rejected =
                            Append(@, [file |-> f,
                                       reason |-> translate("exceededMaxFilesDesc")])]
             ELSE [before EXCEPT !.rejected =
                       Append(@, [file |-> f,
                                  reason |-> IF ~isSupported(f)
                                             THEN translate("unsupportedFormat")
                                             ELSE translate("fileTooLarge")])]

\* FileLists of supported files of a permitted size, not more than maxFiles
CleanSelections == SeqUpTo({Poster}, maxFiles) \ {<<>>}

\* what the forEach of handleFiles leaves in `accepted` and `rejected`, for
\* every FileList
Filtered ==
    [rawFiles \in Selections \cup CleanSelections |->
        filterFiles(rawFiles, Len(rawFiles))]

\* App.handleFilesSelected: setFiles(prev => [...prev, ...selectedFiles])
handleFilesSelected(prev, selectedFiles) == prev \o selectedFiles

\* s without its k-th element
RemoveAt(s, k) == SubSeq(s, 1, k - 1) \o SubSeq(s, k + 1, Len(s))

\* mutant of processEnabled: the button is never disabled
processEnabledAlways(a) == TRUE

\* ProcessControls: the process button, disabled={isProcessing}
processEnabled(a) == ~a.isProcessing

\* what the presentation layer reads of a ProcessedFile that processBatch
\* call number `no` returned for its i-th file
ProcessedFile(no, i, f, status) ==
    [id |-> "res_" \o ToString(no) \o "_" \o ToString(i), originalFile |-> f,
     status |-> status]

\* the lists a processBatch call can return: one result per file, each
\* completed or failed
processBatchReturns(batch) ==
    {[i \in 1..Len(batch.files) |->
         ProcessedFile(batch.no, i, batch.files[i], st[i])] :
       st \in [1..Len(batch.files) -> {"completed", "failed"}]}

\* the answers of the endpoint to a request of the detail view
ViewOutcomes == {Rejected, Answer(AnalysisTextValid), Answer(TextNull)}

\* App's render with selectedFile = sel, the detail view being d and
\* `pending` its analyzeFile calls: without a selection the view is unmounted
\* and its pending calls will find no component; else the view gets sel as
\* its prop `file` (a view mounted now starts from useState's values), and
\* its effect, run when file.id or file.status changed, calls analyzeWithAI
\* for a completed file if the view holds no analysis
Render(sel, d, pending) ==
    IF sel = NoResult
    THEN [display |-> NoDisplay,
          analyses |-> [k \in DOMAIN pending |-> [pending[k] EXCEPT !.alive = FALSE]]]
    ELSE LET view == IF d.mounted
                     THEN [d EXCEPT !.file = sel]
                     ELSE [mounted |-> TRUE, file |-> sel, aiAnalysis |-> NoAnalysis,
                           analysisOf |-> "", loadingAnalysis |-> FALSE]
             depsChanged == ~d.mounted \/ d.file.id # sel.id
                                       \/ d.file.status # sel.status
             runs == /\ depsChanged
                     /\ sel.status = "completed"
                     /\ view.aiAnalysis.null
         IN  [display |-> IF runs THEN [view EXCEPT !.loadingAnalysis = TRUE]
                          ELSE view,
              analyses |-> IF runs
                           THEN Append(pending, [file |-> sel, alive |-> TRUE])
                           ELSE pending]

\* the pipeline is not part of a session's state: its variables rest
EngineIdle ==
    /\ files = <<>>
    /\ options = [safeMode |-> TRUE, removeGPS |-> TRUE, changeDates |-> FALSE,
                  generateFakeData |-> FALSE, preserveQuality |-> TRUE]
    /\ results = <<>>
    /\ idx = 1
    /\ pc = "idle"
    /\ canvas = NoCanvas
    /\ img = NoImage
    /\ fileMetadata = NoMetadata
    /\ silent = FALSE
    /\ calls = <<>>
    /\ faults = <<>>
    /\ lastCall = NoCall
    /\ now = StartTime
    /\ rng = 1
    /\ sent = <<>>

\* the App after its first render
AppInit == UiInit /\ EngineIdle

\* the App with an image and a video in its file list
ViewInit ==
    /\ app = [AppMounted EXCEPT !.files = <<Photo, Clip>>]
    /\ uploader = UploaderMounted
    /\ display = NoDisplay
    /\ inflight = NothingInFlight
    /\ EngineIdle

\* FileUploader.handleFiles for the FileList of a select or drop event, and
\* its timer callback 700 ms later: the files are filtered, the accepted
\* ones go to App.handleFilesSelected, the rejected ones to rejectedFiles.
\* uploader.rawFiles keeps the FileList until the next event of the session.
HandleFiles(rawFiles) ==
    LET r == Filtered[rawFiles]
    IN  /\ Len(app.files) + Len(r.accepted) <= MaxListed
        /\ Len(uploader.rejectedFiles) + Len(r.rejected) <= MaxRejected
        /\ app' = IF Len(r.accepted) > 0
                  THEN [app EXCEPT !.files = handleFilesSelected(@, r.accepted)]
                  ELSE app
        /\ uploader' = [rejectedFiles |->
                            IF Len(r.rejected) > 0
                            THEN uploader.rejectedFiles \o r.rejected
                            ELSE uploader.rejectedFiles,
                        rawFiles |-> rawFiles]
        /\ UNCHANGED <<display, inflight, engineVars>>

\* a select or drop event with any FileList
HandleFilesAny == \E rawFiles \in Selections : HandleFiles(rawFiles)

\* a select or drop event with supported files of a permitted size
HandleFilesClean == \E rawFiles \in CleanSelections : HandleFiles(rawFiles)

\* the event before was a select or drop: the FileList is gone
Forget == uploader' = [uploader EXCEPT !.rawFiles = <<>>]

\* App.removeFile(index)
RemoveFile ==
    /\ \E index \in DOMAIN app.files :
         app' = [app EXCEPT !.files = RemoveAt(@, index)]
    /\ Forget
    /\ UNCHANGED <<display, inflight, engineVars>>

\* the remove-all button of the file list: setFiles([])
RemoveAllFiles ==
    /\ Len(app.files) > 0
    /\ app' = [app EXCEPT !.files = <<>>]
    /\ Forget
    /\ UNCHANGED <<display, inflight, engineVars>>

\* the close button of the rejected list: setRejectedFiles([])
DismissRejected ==
    /\ Len(uploader.rejectedFiles) > 0
    /\ uploader' = [rejectedFiles |-> <<>>, rawFiles |-> <<>>]
    /\ UNCHANGED <<app, display, inflight, engineVars>>

\* App.clearAll
ClearAll ==
    /\ Len(app.files) > 0 \/ Len(app.processedFiles) > 0
    /\ app' = [app EXCEPT !.files = <<>>, !.processedFiles = <<>>,
                          !.selectedFile = NoResult]
    /\ LET r == Render(NoResult, display, inflight.analyses)
       IN  /\ display' = r.display
           /\ inflight' = [inflight EXCEPT !.analyses = r.analyses]
    /\ Forget
    /\ UNCHANGED engineVars

\* a click on the process button: App.handleProcessFiles up to
\* `await MetadataProcessor.processBatch(files, options)`
HandleProcessFiles ==
    /\ processEnabled(app)
    /\ Len(app.files) > 0
    /\ inflight.started < MaxBatches
    /\ app' = [app EXCEPT !.isProcessing = TRUE]
    /\ inflight' = [inflight EXCEPT
                       !.batches = Append(@, [files |-> app.files,
                                              no |-> inflight.started + 1]),
                       !.started = @ + 1]
    /\ Forget
    /\ UNCHANGED <<display, engineVars>>

\* processBatch returns: App.handleProcessFiles resumes, sets processedFiles
\* and selectedFile, and its finally block clears isProcessing
BatchReturns ==
    /\ \E k \in DOMAIN inflight.batches :
         \E rs \in processBatchReturns(inflight.batches[k]) :
           LET sel == IF Len(rs) > 0 THEN rs[1] ELSE app.selectedFile
               r == Render(sel, display, inflight.analyses)
           IN  /\ app' = [app EXCEPT !.processedFiles = rs,
                                     !.selectedFile = sel,
                                     !.isProcessing = FALSE]
               /\ display' = r.display
               /\ inflight' = [inflight EXCEPT !.batches = RemoveAt(@, k),
                                               !.analyses = r.analyses]
    /\ Forget
    /\ UNCHANGED engineVars

\* a click on an entry of the result list: setSelectedFile(file)
SelectResult ==
    /\ Len(inflight.analyses) < MaxPending
    /\ \E i \in DOMAIN app.processedFiles :
         LET sel == app.processedFiles[i]
             r == Render(sel, display, inflight.analyses)
         IN  /\ app' = [app EXCEPT !.selectedFile = sel]
             /\ display' = r.display
             /\ inflight' = [inflight EXCEPT !.analyses = r.analyses]
    /\ UNCHANGED <<uploader, engineVars>>

\* the remove button of an entry of the result list:
\* setProcessedFiles(prev => prev.filter(f => f.id !== file.id))
RemoveResult ==
    /\ \E i \in DOMAIN app.processedFiles :
         app' = [app EXCEPT !.processedFiles =
                     SelectSeq(@, LAMBDA f : f.id # app.processedFiles[i].id)]
    /\ UNCHANGED <<uploader, display, inflight, engineVars>>

\* an analyzeFile call of the detail view settles, whichever is first:
\* analyzeWithAI resumes with setAiAnalysis(analysis) and, in its finally
\* block, setLoadingAnalysis(false); both do nothing for a view that was
\* unmounted
AnalysisArrives ==
    /\ \E k \in DOMAIN inflight.analyses :
         \E outcome \in ViewOutcomes :
           LET req == inflight.analyses[k]
               r == analyzeFile(req.file.originalFile, outcome)
           IN  /\ inflight' = [inflight EXCEPT !.analyses = RemoveAt(@, k)]
               /\ display' =
                      IF ~req.alive THEN display
                      ELSE IF r.thrown
                      THEN [display EXCEPT !.loadingAnalysis = FALSE]
                      ELSE [display EXCEPT
                               !.aiAnalysis = IF r.value.null THEN NoAnalysis
                                              ELSE r.value,
                               !.analysisOf = req.file.id,
                               !.loadingAnalysis = FALSE]
    /\ UNCHANGED <<app, uploader, engineVars>>

\* a session of selecting and removing files
FilterNext ==
    \/ HandleFilesAny
    \/ RemoveFile
    \/ RemoveAllFiles
    \/ DismissRejected
    \/ ClearAll

FilterSpec == AppInit /\ [][FilterNext]_vars

\* a session of selecting, removing and processing files that pass the
\* filter
UploadNext ==
    \/ HandleFilesClean
    \/ RemoveFile
    \/ RemoveAllFiles
    \/ ClearAll
    \/ HandleProcessFiles
    \/ BatchReturns

UploadSpec == AppInit /\ [][UploadNext]_vars

\* a session of processing files and looking at the results
ViewNext ==
    \/ HandleProcessFiles
    \/ BatchReturns
    \/ SelectResult
    \/ RemoveResult
    \/ AnalysisArrives
    \/ ClearAll

ViewSpec == ViewInit /\ [][ViewNext]_vars

----------------------------------------------------------------------------
(* Claims on the presentation layer                                        *)

\* the files a select or drop step passed on to App, and the entries it
\* added to rejectedFiles
PassedOn == SubSeq(app'.files, Len(app.files) + 1, Len(app'.files))
NewlyRejected ==
    SubSeq(uploader'.rejectedFiles, Len(uploader.rejectedFiles) + 1,
           Len(uploader'.rejectedFiles))

\* how often f occurs in the list q
Count(q, f) == Cardinality({i \in DOMAIN q : q[i] = f})

\* the reason strings of FileUploader
Reasons ==
    {translate("unsupportedFormat"), translate("fileTooLarge"),
     translate("exceededMaxFilesDesc")}

\* C21: every file the upload filter passes on has a mime type starting
\* with 'image/' or 'video/' and a size of at most maxSize; every other
\* selected file is rejected with exactly one reason string and is never
\* passed on, so never processed; an unsupported type is the reported reason
\* also for a file that is oversized as well.
C21_UploadFilter ==
    [][uploader'.rawFiles # <<>> =>
          LET acc == PassedOn
              rej == NewlyRejected
              rejFiles == [i \in DOMAIN rej |-> rej[i].file]
          IN  /\ app'.files = app.files \o acc
              /\ uploader'.rejectedFiles = uploader.rejectedFiles \o rej
              /\ \A i \in DOMAIN app'.files :
                     /\ Supported(app'.files[i])
                     /\ app'.files[i].size <= maxSize
              /\ \A f \in SelectableFiles :
                     Count(uploader'.rawFiles, f) = Count(acc, f) + Count(rejFiles, f)
              /\ \A i \in DOMAIN rej :
                     LET f == rej[i].file
                         reason == rej[i].reason
                     IN  /\ reason \in Reasons
                         /\ (reason = translate("unsupportedFormat")) <=> ~Supported(f)
                         /\ (reason = translate("fileTooLarge"))
                                <=> (Supported(f) /\ f.size > maxSize)
                         /\ (reason = translate("exceededMaxFilesDesc"))
                                => Len(acc) = maxFiles]_vars

\* a selection of an image of maxSize bytes and an oversized file of an
\* unsupported type has been filtered: the image was passed on, the other
\* file rejected as unsupported
C21_Witness ==
    /\ uploader.rawFiles = <<Poster, Dump>>
    /\ app.files # <<>>
    /\ app.files[Len(app.files)] = Poster
    /\ uploader.rejectedFiles # <<>>
    /\ uploader.rejectedFiles[Len(uploader.rejectedFiles)] =
           [file |-> Dump, reason |-> "Unsupported format"]

\* C22: after any sequence of selections, drops and removals, the list of
\* files the App submits to processBatch holds at most maxFiles files.
C22_SubmittedWithinMaxFiles ==
    \A k \in DOMAIN inflight.batches :
        Len(inflight.batches[k].files) <= maxFiles

\* C28: at most one processBatch call is in flight in the App: isProcessing
\* is true from the start of a batch of at least one file until that batch
\* returns, the process action is enabled only while isProcessing is false,
\* and isProcessing is false again after every batch.
C28_OneBatchInFlight ==
    /\ Len(inflight.batches) <= 1
    /\ app.isProcessing <=> Len(inflight.batches) = 1
    /\ ENABLED HandleProcessFiles => ~app.isProcessing

\* a second batch is in flight after the first one returned
C28_Witness ==
    /\ app.isProcessing
    /\ inflight.started = 2
    /\ Len(inflight.batches) = 1
    /\ Len(app.processedFiles) > 0

\* C29: the risk analysis shown in the detail view belongs to the selected
\* file: whatever the selections among completed files and the order in
\* which the requested analyses arrive, the view shows no analysis or the
\* one that was requested for the file it displays.
C29_AnalysisOfSelectedFile ==
    (display.mounted /\ display.file.status = "completed"
                     /\ ~display.aiAnalysis.null) =>
        /\ display.file = app.selectedFile
        /\ display.analysisOf = display.file.id

====
